---- MODULE Spec2Model ----
(***************************************************************************)
(* A model of parse_to_xml.py: the archive feed articles.xml that          *)
(* update_main_xml merges scraped articles into, and the daily digest      *)
(* that update_daily derives from it with the watermark last_seen.json.    *)
(*                                                                         *)
(* Time is counted in ticks, TicksPerSecond to the second: datetime.now()  *)
(* and isoformat() keep the sub-second part, the RSS date format           *)
(* "%a, %d %b %Y %H:%M:%S %z" does not.  The program's sizes and windows   *)
(* are scaled down, keeping their order: MAX_ITEMS is more than twice the  *)
(* digest batch size, the link retention is longer than the lookback and   *)
(* the lookback is longer than a second, the step of the dates of a page.  *)
(* An item record carries its link and its pubDate; title, description     *)
(* and enclosure are copied with them and decide nothing.                  *)
(***************************************************************************)
EXTENDS Integers, Sequences, FiniteSets, TLC

MAX_ITEMS == 3
LOOKBACK_HOURS == 3
LINK_RETENTION_DAYS == 4
MAX_ITEMS_PER_DAILY == 1
TicksPerSecond == 2

MaxTime == 4
MaxArticles == 2

VARIABLES
    now,          \* the clock, in ticks
    pc,           \* the process: "idle", in "main", in "daily", or "done"
    mode,         \* the command line: "default", "--main-only", "--daily-only"
    xmlFile,      \* XML_FILE, the archive feed
    lastSeenFile, \* LAST_SEEN_FILE, the watermark
    dailyFile,    \* DAILY_FILE
    dailyFile2,   \* DAILY_FILE_2
    articles,     \* update_main_xml: what scrape_articles() returned
    channel,      \* update_main_xml: the items parsed from XML_FILE
    last_data,    \* update_daily: what load_last_seen() returned
    new_items,    \* update_daily: the new items, as write_rss gets them
    emitted       \* history: the article links the digests so far have held

vars == <<now, pc, mode, xmlFile, lastSeenFile, dailyFile, dailyFile2,
          articles, channel, last_data, new_items, emitted>>

files == <<xmlFile, lastSeenFile, dailyFile, dailyFile2>>

\* href values of the page; " a" is "a" with surrounding whitespace
Urls == {"a", "b", "c", "d", " a"}

\* the link of the placeholder item of an empty digest
HomeLink == "https://www.newagebd.net"

\* str.strip()
strip(s) == IF s = " a" THEN "a" ELSE s

\* the instants a date text of the page can denote: whole seconds
Seconds == {t \in 0..MaxTime : t % TicksPerSecond = 0}

\* a date text no format parses, or no <time> tag at all
NoDate == -1

\* an optional datetime is a sequence of at most one instant
None == <<>>

Some(dt) == <<dt>>

\* parse_date_from_text: the parsed instant, or now() when nothing parses
parse_date_from_text(date_text, clock) ==
    IF date_text = NoDate THEN clock ELSE date_text

\* strftime("%a, %d %b %Y %H:%M:%S %z"), as the instant the text denotes
strftime(dt) == dt - (dt % TicksPerSecond)

\* scrape_articles(): the pages of at most n cards with these hrefs and
\* date texts, as the article dicts {url, pub} scraped from them
Pages(urls, texts, n, clock) ==
    LET arts == [url : urls, pub : {parse_date_from_text(t, clock) : t \in texts}]
    IN  UNION {[1..k -> arts] : k \in 0..n}

\* an absent or unparseable file has ok = FALSE
NoFile == [ok |-> FALSE, items |-> <<>>]

\* update_main_xml: the <item> children of the channel parsed from XML_FILE
LoadChannel(file) == IF file.ok THEN file.items ELSE <<>>

\* update_main_xml: the set "existing" built from the channel
ExistingLinks(items) == {strip(items[i].link) : i \in DOMAIN items}

\* update_main_xml: the loop over the scraped articles building new_items
RECURSIVE NewItems(_, _)
NewItems(arts, existing) ==
    IF arts = <<>> THEN <<>>
    ELSE LET art == Head(arts) IN
         IF art.url \in existing
         THEN NewItems(Tail(arts), existing)
         ELSE <<[link |-> art.url, pubDate |-> strftime(art.pub)]>>
              \o NewItems(Tail(arts), existing \cup {art.url})

\* update_main_xml: channel.insert(insert_position + i, item)
InsertAtTop(items, old) == items \o old

\* a trim that stops one item early
TrimOffByOne(all_items) ==
    IF Len(all_items) > MAX_ITEMS
    THEN SubSeq(all_items, Len(all_items) - MAX_ITEMS, Len(all_items))
    ELSE all_items

\* update_main_xml: for old_item in all_items[:-MAX_ITEMS]: channel.remove
Trim(all_items) ==
    IF Len(all_items) > MAX_ITEMS
    THEN SubSeq(all_items, Len(all_items) - MAX_ITEMS + 1, Len(all_items))
    ELSE all_items

\* a merge in which the scraped article replaces the stored item of its link
MergedChannelLastSeen(old, arts) ==
    Trim(InsertAtTop(NewItems(arts, {}),
                     SelectSeq(old, LAMBDA it :
                         \A k \in DOMAIN arts : arts[k].url # strip(it.link))))

\* update_main_xml: the channel written back for a non-empty scrape
MergedChannel(old, arts) ==
    Trim(InsertAtTop(NewItems(arts, ExistingLinks(old)), old))

\* a merge without the early return for an empty scrape
MainXmlAfterAlways(file, arts) ==
    [ok |-> TRUE, items |-> MergedChannel(LoadChannel(file), arts)]

\* update_main_xml: articles.xml after the call
MainXmlAfter(file, arts) ==
    IF arts = <<>> THEN file
    ELSE [ok |-> TRUE, items |-> MergedChannel(LoadChannel(file), arts)]

\* load_existing: the items of the archive, links stripped, dates parsed
load_existing(file, clock) ==
    IF file.ok
    THEN [i \in DOMAIN file.items |->
            [link |-> strip(file.items[i].link),
             pubDate |-> parse_date_from_text(file.items[i].pubDate, clock)]]
    ELSE <<>>

\* write_rss: the feed file holding these items, dates formatted
write_rss(items) ==
    [ok |-> TRUE,
     items |-> [i \in DOMAIN items |->
                  [link |-> items[i].link, pubDate |-> strftime(items[i].pubDate)]]]

\* a missing or malformed last_seen.json
NoLastSeen == [ok |-> FALSE, last_seen |-> None, processed_links |-> {}]

\* load_last_seen
load_last_seen(file) ==
    IF file.ok
    THEN [last_seen |-> file.last_seen, processed_links |-> file.processed_links]
    ELSE [last_seen |-> None, processed_links |-> {}]

\* a save that keeps every processed link
save_last_seen_unpruned(last_dt, processed_links, master_items) ==
    [ok |-> TRUE,
     last_seen |-> Some(last_dt),
     processed_links |-> processed_links]

\* save_last_seen: the watermark file written, old processed links dropped
save_last_seen(last_dt, processed_links, master_items) ==
    LET cutoff == last_dt - LINK_RETENTION_DAYS
        master_links_recent ==
            {master_items[i].link : i \in {j \in DOMAIN master_items :
                                            master_items[j].pubDate > cutoff}}
    IN  [ok |-> TRUE,
         last_seen |-> Some(last_dt),
         processed_links |-> {l \in processed_links : l \in master_links_recent}]

\* a cutoff at last_seen itself, with no lookback
LookbackNone(last_seen_dt) ==
    IF last_seen_dt # None THEN Some(last_seen_dt[1]) ELSE None

\* a cutoff that lies after last_seen instead of before it
LookbackForward(last_seen_dt) ==
    IF last_seen_dt # None THEN Some(last_seen_dt[1] + LOOKBACK_HOURS) ELSE None

\* update_daily: lookback_dt
Lookback(last_seen_dt) ==
    IF last_seen_dt # None THEN Some(last_seen_dt[1] - LOOKBACK_HOURS) ELSE None

\* update_daily: the loop over master_items building new_items
RECURSIVE SelectNew(_, _, _)
SelectNew(items, processed_links, lookback_dt) ==
    IF items = <<>> THEN <<>>
    ELSE LET item == Head(items) IN
         IF item.link \in processed_links
         THEN SelectNew(Tail(items), processed_links, lookback_dt)
         ELSE IF lookback_dt = None \/ item.pubDate > lookback_dt[1]
              THEN <<item>> \o SelectNew(Tail(items),
                                         processed_links \cup {item.link},
                                         lookback_dt)
              ELSE SelectNew(Tail(items), processed_links, lookback_dt)

Links(items) == {items[i].link : i \in DOMAIN items}

\* list.sort(key=pubDate, reverse=True): stable, newest first
RECURSIVE InsertSorted(_, _)
InsertSorted(item, sorted) ==
    IF sorted = <<>> THEN <<item>>
    ELSE IF Head(sorted).pubDate >= item.pubDate
         THEN <<Head(sorted)>> \o InsertSorted(item, Tail(sorted))
         ELSE <<item>> \o sorted

RECURSIVE SortNewestFirst(_)
SortNewestFirst(items) ==
    IF items = <<>> THEN <<>>
    ELSE InsertSorted(items[Len(items)],
                      SortNewestFirst(SubSeq(items, 1, Len(items) - 1)))

\* new_items[:100]
FirstBatch(items) ==
    SubSeq(items, 1, IF Len(items) < MAX_ITEMS_PER_DAILY
                     THEN Len(items) ELSE MAX_ITEMS_PER_DAILY)

\* an overflow batch cut at the batch size: new_items[100:200]
SecondBatchCapped(items) ==
    SubSeq(items, MAX_ITEMS_PER_DAILY + 1,
           IF Len(items) < 2 * MAX_ITEMS_PER_DAILY
           THEN Len(items) ELSE 2 * MAX_ITEMS_PER_DAILY)

\* new_items[100:]
SecondBatch(items) == SubSeq(items, MAX_ITEMS_PER_DAILY + 1, Len(items))

\* the pubDate of the last of the items
LastPubDate(items) == items[Len(items)].pubDate

\* max([i["pubDate"] for i in new_items])
MaxPubDate(items) ==
    CHOOSE d \in {items[i].pubDate : i \in DOMAIN items} :
        \A i \in DOMAIN items : items[i].pubDate <= d

\* a placeholder dated with the epoch instead of now
PlaceholderEpoch(clock) == [link |-> HomeLink, pubDate |-> 0]

\* update_daily: the placeholder item of an empty digest
Placeholder(clock) == [link |-> HomeLink, pubDate |-> clock]

\* the new items in the order of the archive, without the sort
DailyNewItemsUnsorted(xml, seen, clock) ==
    LET data == load_last_seen(seen)
    IN  SelectNew(load_existing(xml, clock), data.processed_links,
                  Lookback(data.last_seen))

\* update_daily: new_items after the loop and the sort
DailyNewItems(xml, seen, clock) ==
    LET data == load_last_seen(seen)
    IN  SortNewestFirst(SelectNew(load_existing(xml, clock),
                                  data.processed_links,
                                  Lookback(data.last_seen)))

\* update_daily: what is written to DAILY_FILE
DailyFileAfter(xml, seen, clock) ==
    LET items == DailyNewItems(xml, seen, clock)
    IN  IF items = <<>> THEN write_rss(<<Placeholder(clock)>>)
        ELSE write_rss(FirstBatch(items))

\* update_daily: what is written to DAILY_FILE_2
DailyFile2After(xml, seen, clock) ==
    LET items == DailyNewItems(xml, seen, clock)
    IN  IF items = <<>> THEN write_rss(<<>>)
        ELSE write_rss(SecondBatch(items))

\* update_daily: what save_last_seen writes to LAST_SEEN_FILE
LastSeenAfter(xml, seen, clock) ==
    LET items == DailyNewItems(xml, seen, clock)
        processed_links == load_last_seen(seen).processed_links \cup Links(items)
        last_dt == IF items = <<>> THEN Placeholder(clock).pubDate
                   ELSE MaxPubDate(items)
    IN  save_last_seen(last_dt, processed_links, load_existing(xml, clock))

Init ==
    /\ now = 0
    /\ pc = "idle"
    /\ mode = "default"
    /\ xmlFile = NoFile
    /\ lastSeenFile = NoLastSeen
    /\ dailyFile = NoFile
    /\ dailyFile2 = NoFile
    /\ articles = <<>>
    /\ channel = <<>>
    /\ last_data = load_last_seen(NoLastSeen)
    /\ new_items = <<>>
    /\ emitted = {}

\* time passes between the runs
Tick ==
    /\ pc \in {"idle", "done"}
    /\ now < MaxTime
    /\ now' = now + 1
    /\ UNCHANGED <<pc, mode, files, articles, channel, last_data, new_items,
                   emitted>>

\* a run that starts with the archive whatever its arguments
MainArchiveFirst(args) ==
    /\ pc \in {"idle", "done"}
    /\ mode' = args
    /\ pc' = "main"
    /\ articles' = <<>>
    /\ channel' = <<>>
    /\ last_data' = load_last_seen(NoLastSeen)
    /\ new_items' = <<>>
    /\ UNCHANGED <<now, files, emitted>>

\* __main__: a run starts with these arguments
Main(args) ==
    /\ pc \in {"idle", "done"}
    /\ mode' = args
    /\ pc' = IF args = "--daily-only" THEN "daily" ELSE "main"
    /\ articles' = <<>>
    /\ channel' = <<>>
    /\ last_data' = load_last_seen(NoLastSeen)
    /\ new_items' = <<>>
    /\ UNCHANGED <<now, files, emitted>>

\* update_main_xml(), scrape_articles() returning arts
update_main_xml(arts) ==
    /\ pc = "main"
    /\ pc' = IF mode = "default" THEN "daily" ELSE "done"
    /\ articles' = arts
    /\ channel' = IF arts = <<>> THEN <<>> ELSE LoadChannel(xmlFile)
    /\ xmlFile' = MainXmlAfter(xmlFile, arts)
    /\ UNCHANGED <<now, mode, lastSeenFile, dailyFile, dailyFile2,
                   last_data, new_items, emitted>>

\* update_daily()
update_daily ==
    /\ pc = "daily"
    /\ pc' = "done"
    /\ articles' = <<>>
    /\ channel' = <<>>
    /\ last_data' = load_last_seen(lastSeenFile)
    /\ new_items' = DailyNewItems(xmlFile, lastSeenFile, now)
    /\ dailyFile' = DailyFileAfter(xmlFile, lastSeenFile, now)
    /\ dailyFile2' = DailyFile2After(xmlFile, lastSeenFile, now)
    /\ lastSeenFile' = LastSeenAfter(xmlFile, lastSeenFile, now)
    /\ emitted' = emitted \cup Links(DailyNewItems(xmlFile, lastSeenFile, now))
    /\ UNCHANGED <<now, mode, xmlFile>>

\* the pages the archive is merged from: any cards, dated by the scrape
MergePages == Pages(Urls, {NoDate}, MaxArticles, now)

\* the archive alone: runs with --main-only
NextMerge ==
    \/ Tick
    \/ Main("--main-only")
    \/ \E arts \in MergePages : update_main_xml(arts)

SpecMerge == Init /\ [][NextMerge]_vars

\* the pages the feed is scraped from: one card at most has appeared since
\* the run before, with any date text, its href without whitespace
FeedPages == Pages({"a", "b", "c"}, Seconds \cup {NoDate}, 1, now)

Next ==
    \/ Tick
    \/ \E args \in {"default", "--main-only", "--daily-only"} : Main(args)
    \/ \E arts \in FeedPages : update_main_xml(arts)
    \/ update_daily

Spec == Init /\ [][Next]_vars

\* tree.write(XML_FILE) opens the file for writing, which empties it, and
\* then writes: a run that ends in between leaves a file that does not parse
update_main_xml_interrupted(arts) ==
    /\ pc = "main"
    /\ arts # <<>>
    /\ pc' = "done"
    /\ articles' = arts
    /\ channel' = LoadChannel(xmlFile)
    /\ xmlFile' = NoFile
    /\ UNCHANGED <<now, mode, lastSeenFile, dailyFile, dailyFile2,
                   last_data, new_items, emitted>>

\* update_daily ending inside one of its three writes: open(path, "w")
\* has emptied the file, the writes before it are complete
update_daily_interrupted(at) ==
    /\ pc = "daily"
    /\ pc' = "done"
    /\ articles' = <<>>
    /\ channel' = <<>>
    /\ last_data' = load_last_seen(lastSeenFile)
    /\ new_items' = DailyNewItems(xmlFile, lastSeenFile, now)
    /\ dailyFile' = IF at = "DAILY_FILE" THEN NoFile
                    ELSE DailyFileAfter(xmlFile, lastSeenFile, now)
    /\ dailyFile2' = IF at = "DAILY_FILE" THEN dailyFile2
                     ELSE IF at = "DAILY_FILE_2" THEN NoFile
                     ELSE DailyFile2After(xmlFile, lastSeenFile, now)
    /\ lastSeenFile' = IF at = "LAST_SEEN_FILE" THEN NoLastSeen
                       ELSE lastSeenFile
    /\ emitted' = IF at = "DAILY_FILE" THEN emitted
                  ELSE IF at = "DAILY_FILE_2"
                  THEN emitted \cup Links(FirstBatch(DailyNewItems(xmlFile, lastSeenFile, now)))
                  ELSE emitted \cup Links(DailyNewItems(xmlFile, lastSeenFile, now))
    /\ UNCHANGED <<now, mode, xmlFile>>

\* the pages of the runs that may be interrupted: what an interruption
\* leaves behind does not depend on what the page lists
CrashPages == Pages({"a", "b"}, {NoDate}, 1, now)

NextCrash ==
    \/ Tick
    \/ \E args \in {"default", "--main-only", "--daily-only"} : Main(args)
    \/ \E arts \in CrashPages : update_main_xml(arts)
    \/ update_daily
    \/ \E arts \in CrashPages : update_main_xml_interrupted(arts)
    \/ \E at \in {"DAILY_FILE", "DAILY_FILE_2", "LAST_SEEN_FILE"} :
         update_daily_interrupted(at)

SpecCrash == Init /\ [][NextCrash]_vars

(***************************************************************************)
(* The archive: update_main_xml.                                           *)
(***************************************************************************)

\* update_main_xml has returned from a merge: a non-empty scrape
Merged == pc # "main" /\ articles # <<>>

\* the items the merge inserted at the top, before the trim
Inserted == NewItems(articles, ExistingLinks(channel))

\* s without some of its elements, the rest in their order
RECURSIVE IsSubsequence(_, _)
IsSubsequence(s, t) ==
    IF s = <<>> THEN TRUE
    ELSE IF t = <<>> THEN FALSE
    ELSE IF Head(s) = Head(t) THEN IsSubsequence(Tail(s), Tail(t))
    ELSE IsSubsequence(s, Tail(t))

\* C1: whatever batches the runs of update_main_xml merge, starting from
\* an empty archive, articles.xml never holds more than MAX_ITEMS items.
C1_Capacity == Len(xmlFile.items) <= MAX_ITEMS

\* C1: a merge made the channel longer than MAX_ITEMS and the trim cut it
C1_Witness ==
    /\ Merged
    /\ Len(Inserted) + Len(channel) > MAX_ITEMS
    /\ Len(xmlFile.items) = MAX_ITEMS

\* C2: no two items of articles.xml have the same link, and an article
\* whose link is in the archive already is not inserted again.
C2_LinkUnique ==
    /\ \A i, j \in DOMAIN xmlFile.items :
         i # j => xmlFile.items[i].link # xmlFile.items[j].link
    /\ Merged => \A k \in DOMAIN Inserted :
                    Inserted[k].link \notin Links(channel)

\* the scraped articles all have links the archive does not hold, in
\* either spelling, and no two of them the same link
AllNewAndUnique ==
    /\ \A k \in DOMAIN articles :
         /\ articles[k].url \notin Links(channel)
         /\ strip(articles[k].url) \notin ExistingLinks(channel)
    /\ \A k, l \in DOMAIN articles :
         k # l => strip(articles[k].url) # strip(articles[l].url)

\* C3: after a merge of N articles with new, unique links the archive
\* starts with these N articles in scrape order, and the prior content
\* follows in its prior order, less what the trim removed.
C3_OrderPreserved ==
    (Merged /\ AllNewAndUnique) =>
        LET n == Len(articles)
            items == xmlFile.items
        IN  /\ Len(items) >= n
            /\ \A k \in 1..n : items[k].link = articles[k].url
            /\ IsSubsequence(SubSeq(items, n + 1, Len(items)), channel)

\* C4: when a merge makes the channel longer than MAX_ITEMS, the items
\* kept are the first MAX_ITEMS in store order: the tail is what goes.
C4_TrimDropsOldest ==
    (Merged /\ Len(Inserted) + Len(channel) > MAX_ITEMS) =>
        xmlFile.items = SubSeq(Inserted \o channel, 1, MAX_ITEMS)

\* C5: update_main_xml run again with the same scraped batch leaves
\* articles.xml as the first run left it.
C5_Idempotent ==
    Merged => MainXmlAfter(xmlFile, articles) = xmlFile

(***************************************************************************)
(* The digest: update_daily.                                               *)
(***************************************************************************)

\* update_daily has returned
DigestRan == pc = "done" /\ mode # "--main-only"

Range(items) == {items[i] : i \in DOMAIN items}

\* C6: each digest file, the primary one and the overflow one, holds at
\* most MAX_ITEMS_PER_DAILY items.
C6_BatchCap ==
    /\ Len(dailyFile.items) <= MAX_ITEMS_PER_DAILY
    /\ Len(dailyFile2.items) <= MAX_ITEMS_PER_DAILY

\* C7: after a digest with new items, the links written to the two files
\* together are the links of the new items, each written once.
C7_BatchesComplete ==
    (DigestRan /\ new_items # <<>>) =>
        /\ dailyFile.ok /\ dailyFile2.ok
        /\ Links(dailyFile.items) \cup Links(dailyFile2.items) = Links(new_items)
        /\ Len(dailyFile.items) + Len(dailyFile2.items)
             = Cardinality(Links(new_items))
        /\ Len(new_items) = Cardinality(Links(new_items))

\* C7: a digest whose new items did not fit the primary file
C7_Witness ==
    /\ DigestRan
    /\ Len(new_items) > MAX_ITEMS_PER_DAILY
    /\ dailyFile2.items # <<>>

\* the archive as update_daily loaded it: it does not write articles.xml
MasterItems == load_existing(xmlFile, now)

UniqueLinks(items) ==
    \A i, j \in DOMAIN items : i # j => items[i].link # items[j].link

\* C8: with unique links in the archive, an item of the archive is among
\* the new items exactly when its link is not in the processed links that
\* were loaded and, if a last_seen was loaded, its pubDate is later than
\* last_seen - LOOKBACK_HOURS; and every new item is an item of the archive.
C8_Windowing ==
    (DigestRan /\ UniqueLinks(MasterItems)) =>
        /\ \A i \in DOMAIN MasterItems :
             MasterItems[i] \in Range(new_items)
             <=> /\ MasterItems[i].link \notin last_data.processed_links
                 /\ \/ last_data.last_seen = None
                    \/ MasterItems[i].pubDate
                         > last_data.last_seen[1] - LOOKBACK_HOURS
        /\ Range(new_items) \subseteq Range(MasterItems)

\* C8: an unprocessed item older than last_seen, inside the lookback
\* window, is among the new items
C8_Witness ==
    /\ DigestRan
    /\ UniqueLinks(MasterItems)
    /\ last_data.last_seen # None
    /\ \E i \in DOMAIN new_items :
         new_items[i].pubDate < last_data.last_seen[1]

\* C9: a digest that finds nothing new writes one placeholder item to
\* DAILY_FILE, dated now in the feed's date format, writes DAILY_FILE_2
\* with no item, and saves now as last_seen.
C9_Placeholder ==
    [][(pc = "daily" /\ pc' = "done" /\ new_items' = <<>>) =>
        /\ dailyFile' = [ok |-> TRUE,
                         items |-> <<[link |-> HomeLink,
                                      pubDate |-> strftime(now)]>>]
        /\ dailyFile2' = [ok |-> TRUE, items |-> <<>>]
        /\ lastSeenFile'.ok
        /\ lastSeenFile'.last_seen = Some(now)]_vars

\* C9: an empty digest has run, at an instant that is no whole second
C9_Witness ==
    /\ DigestRan
    /\ new_items = <<>>
    /\ Len(dailyFile.items) = 1
    /\ dailyFile.items[1].link = HomeLink
    /\ lastSeenFile.last_seen # Some(dailyFile.items[1].pubDate)

(***************************************************************************)
(* Interrupted runs.                                                       *)
(***************************************************************************)

\* C10: whatever happens to a run, articles.xml and last_seen.json each
\* hold afterwards what they held before or the complete new content.
C10_AtomicSave ==
    [][/\ xmlFile' \in {xmlFile, MainXmlAfter(xmlFile, articles')}
       /\ lastSeenFile' \in {lastSeenFile,
                             LastSeenAfter(xmlFile, lastSeenFile, now)}]_vars

(***************************************************************************)
(* The watermark: last_seen and processed_links across the runs.           *)
(***************************************************************************)

\* C13: after a digest run that found new items, the last_seen saved is
\* the greatest pubDate among all of them, whichever batch they went to.
C13_WatermarkAdvance ==
    (DigestRan /\ new_items # <<>>) =>
        /\ \E i \in DOMAIN new_items :
             lastSeenFile.last_seen = Some(new_items[i].pubDate)
        /\ \A i \in DOMAIN new_items :
             new_items[i].pubDate <= lastSeenFile.last_seen[1]

\* C13: a digest with an overflow batch older than the primary batch
C13_Witness ==
    /\ DigestRan
    /\ dailyFile2.items # <<>>
    /\ \E i \in DOMAIN dailyFile2.items :
         dailyFile2.items[i].pubDate < dailyFile.items[1].pubDate

\* C14: after a digest run every processed link saved is the link of an
\* archive item with a pubDate later than the saved last_seen minus the
\* link retention, so that the links saved are no more than the archive
\* items, MAX_ITEMS at most.
C14_Pruning ==
    DigestRan =>
        /\ \A l \in lastSeenFile.processed_links :
             \E i \in DOMAIN MasterItems :
                /\ MasterItems[i].link = l
                /\ MasterItems[i].pubDate
                     > lastSeenFile.last_seen[1] - LINK_RETENTION_DAYS
        /\ Cardinality(lastSeenFile.processed_links) <= Len(xmlFile.items)
        /\ Cardinality(lastSeenFile.processed_links) <= MAX_ITEMS

\* C14: the save dropped a processed link and kept another
C14_Witness ==
    /\ DigestRan
    /\ lastSeenFile.processed_links # {}
    /\ \E l \in last_data.processed_links :
         l \notin lastSeenFile.processed_links

\* C16: a digest run saves a last_seen that is not earlier than the
\* last_seen it loaded.
C16_WatermarkMonotone ==
    (DigestRan /\ last_data.last_seen # None) =>
        lastSeenFile.last_seen[1] >= last_data.last_seen[1]

\* C11: a digest run writes no article link that a digest run before it
\* has written.
C11_NoReEmission ==
    [][(pc = "daily" /\ pc' = "done") =>
        Links(new_items') \cap emitted = {}]_vars

\* C12: when a digest run ends, every item of the archive has been written
\* to a digest, by this run or by one before it.
C12_NoLostArticles ==
    DigestRan =>
        \A i \in DOMAIN MasterItems : MasterItems[i].link \in emitted

\* C12, amended: when a digest run ends, every item of the archive that is
\* later than the loaded last_seen minus the lookback, and every item when
\* no last_seen was loaded, has been written to a digest, by this run or
\* by one before it.
C12_NoLostInWindow ==
    DigestRan =>
        \A i \in DOMAIN MasterItems :
            (\/ last_data.last_seen = None
             \/ MasterItems[i].pubDate
                  > last_data.last_seen[1] - LOOKBACK_HOURS)
            => MasterItems[i].link \in emitted

\* C12: a digest run with a new item, with an item inside the window that
\* an earlier run has written, and with an item that no run has written
C12_Witness ==
    /\ DigestRan
    /\ last_data.last_seen # None
    /\ new_items # <<>>
    /\ \E i \in DOMAIN MasterItems :
         /\ MasterItems[i].pubDate > last_data.last_seen[1] - LOOKBACK_HOURS
         /\ MasterItems[i].link \in last_data.processed_links
    /\ \E i \in DOMAIN MasterItems : MasterItems[i].link \notin emitted

(***************************************************************************)
(* The order of the digest.                                                *)
(***************************************************************************)

NewestFirst(items) ==
    \A i, j \in DOMAIN items :
        i < j => items[i].pubDate >= items[j].pubDate

\* C20: after a digest run that found new items, each of the two files
\* lists its items newest first, and no item of DAILY_FILE is older than
\* an item of DAILY_FILE_2.
C20_DigestOrder ==
    (DigestRan /\ new_items # <<>>) =>
        /\ NewestFirst(dailyFile.items)
        /\ NewestFirst(dailyFile2.items)
        /\ \A i \in DOMAIN dailyFile.items, j \in DOMAIN dailyFile2.items :
             dailyFile.items[i].pubDate >= dailyFile2.items[j].pubDate

\* C20: an overflow batch of two dates, from an archive that was not in
\* this order
C20_Witness ==
    /\ DigestRan
    /\ Len(dailyFile2.items) >= 2
    /\ dailyFile2.items[1].pubDate > dailyFile2.items[2].pubDate
    /\ dailyFile.items[1].pubDate > dailyFile2.items[1].pubDate
    /\ ~NewestFirst(MasterItems)

(***************************************************************************)
(* What a run leaves alone.                                                *)
(***************************************************************************)

\* update_main_xml has merged a scrape that lists a link of the archive
Rescraped ==
    /\ Merged
    /\ \E k \in DOMAIN articles, i \in DOMAIN channel :
         articles[k].url = strip(channel[i].link)

\* C17: when a scraped link is already in the archive, the merge leaves
\* the stored items as they were, each with its pubDate, and in their
\* order: they are the tail of the archive written back.
C17_FirstSeenWins ==
    Rescraped =>
        /\ Len(xmlFile.items) >= Len(channel)
        /\ SubSeq(xmlFile.items, Len(xmlFile.items) - Len(channel) + 1,
                  Len(xmlFile.items)) = channel

\* C17: a scrape that lists an archived link under another date, next to
\* an article that is new
C17_Witness ==
    /\ Rescraped
    /\ Inserted # <<>>
    /\ \E k \in DOMAIN articles, i \in DOMAIN channel :
         /\ articles[k].url = strip(channel[i].link)
         /\ strftime(articles[k].pub) # channel[i].pubDate

\* C18: update_main_xml with an empty scrape leaves articles.xml as it is
\* and returns, and a default run goes on to update_daily.
C18_EmptyScrape ==
    [][(pc = "main" /\ pc' # "main" /\ articles' = <<>>) =>
        /\ xmlFile' = xmlFile
        /\ mode = "default" => pc' = "daily"]_vars

\* C18: a default run is about to build the digest after an empty scrape,
\* with no articles.xml to load
C18_Witness ==
    /\ pc = "daily"
    /\ mode = "default"
    /\ articles = <<>>
    /\ ~xmlFile.ok

\* C19: a run with --main-only leaves last_seen.json and the two digest
\* files as they are, a run with --daily-only leaves articles.xml as it is.
C19_ModeIsolation ==
    [][/\ mode' = "--main-only" =>
            UNCHANGED <<lastSeenFile, dailyFile, dailyFile2>>
       /\ mode' = "--daily-only" => xmlFile' = xmlFile]_vars

\* C19: a run with --main-only has merged new articles next to the files
\* of an earlier digest
C19_Witness ==
    /\ pc = "done"
    /\ mode = "--main-only"
    /\ Merged
    /\ Inserted # <<>>
    /\ lastSeenFile.ok
    /\ dailyFile.ok
    /\ dailyFile2.ok

(***************************************************************************)
(* The default run: update_main_xml, then update_daily.                    *)
(***************************************************************************)

\* default runs alone, over the pages the archive is merged from
NextDefault ==
    \/ Tick
    \/ Main("default")
    \/ \E arts \in MergePages : update_main_xml(arts)
    \/ update_daily

SpecDefault == Init /\ [][NextDefault]_vars

\* C15: when update_daily starts in a default run, articles.xml holds
\* every item that update_main_xml has made of a scraped article whose
\* link was not in the archive.
C15_MergeBeforeDigest ==
    (pc = "daily" /\ mode = "default") =>
        \A i \in DOMAIN Inserted :
            \E j \in DOMAIN xmlFile.items : xmlFile.items[j] = Inserted[i]

====
